---- MODULE Spec2Model ----
(***************************************************************************)
(* FSRU timeline viewer: the two Streamlit drivers scripts/main.py (slider *)
(* + change detection) and scripts/main_deepseek.py (play/pause timeline). *)
(* One action is one run of a script's main(), i.e. one Streamlit render.  *)
(*                                                                         *)
(* Units: coordinates are integers in thousandths of a degree, distances   *)
(* integers in thousandths of a mile.  A file is known by its name; Chars  *)
(* gives the name's characters, so that slicing, splitting, parsing and    *)
(* comparing names is computed, not assumed.                               *)
(***************************************************************************)
EXTENDS Integers, Sequences, FiniteSets, TLC

VARIABLES
    fleet,                  \* the fleet directory: file name -> file body
    session_state,          \* main.py: st.session_state (a dict)
    outcome,                \* main.py: how the last run of main() ended
    timeline_files,         \* main.py: the sorted (datetime, path) list of the last run
    selected_index,         \* main.py: the slider value of the last run (None: not reached)
    vessels,                \* main.py: the vessel list loaded by the last run
    changed_vessel_names,   \* main.py: the changed list of the last run
    compared_with,          \* main.py: previous_data read by the last run (None: no comparison)
    ds_session,             \* main_deepseek.py: st.session_state
    ds_outcome,             \* main_deepseek.py: how the last run of main() ended
    ds_files,               \* main_deepseek.py: DATA_FILES of the last run
    ds_shown,               \* main_deepseek.py: index loaded and drawn by the last run
    ds_vessel_data,         \* main_deepseek.py: vessel_data of the last run
    ds_timestamp,           \* main_deepseek.py: timestamp shown by the last run
    ds_autoplay,            \* main_deepseek.py: branch of the auto-play block taken
    previous_data,          \* change detector alone: its first input
    current_data,           \* change detector alone: its second input
    detected                \* change detector alone: its result (None: not applied)

main_vars == <<session_state, outcome, timeline_files, selected_index, vessels,
               changed_vessel_names, compared_with>>
ds_vars == <<ds_session, ds_outcome, ds_files, ds_shown, ds_vessel_data,
             ds_timestamp, ds_autoplay>>
det_vars == <<previous_data, current_data, detected>>
vars == <<fleet, main_vars, ds_vars, det_vars>>

-----------------------------------------------------------------------------
(* Python values *)

\* None, and a present value v, as a sequence of length 0 or 1.
None == <<>>
Some(v) == <<v>>

\* The empty dict.
EmptyDict == [k \in {} |-> None]

Range(s) == {s[i] : i \in DOMAIN s}

-----------------------------------------------------------------------------
(* Strings as sequences of characters *)

Digits == {"0", "1", "2", "3", "4", "5", "6", "7", "8", "9"}

DigitVal(c) ==
    CASE c = "0" -> 0 [] c = "1" -> 1 [] c = "2" -> 2 [] c = "3" -> 3 [] c = "4" -> 4
      [] c = "5" -> 5 [] c = "6" -> 6 [] c = "7" -> 7 [] c = "8" -> 8 [] c = "9" -> 9

\* Code points of the characters that occur in the file names.
Ord(c) ==
    CASE c \in Digits -> 48 + DigitVal(c)
      [] c = "." -> 46  [] c = "T" -> 84  [] c = "Z" -> 90  [] c = "_" -> 95
      [] c = "a" -> 97  [] c = "d" -> 100 [] c = "e" -> 101 [] c = "j" -> 106
      [] c = "l" -> 108 [] c = "n" -> 110 [] c = "o" -> 111 [] c = "s" -> 115
      [] c = "t" -> 116 [] c = "v" -> 118

\* Python's str < str: by code point at the first difference, a proper prefix first.
RECURSIVE StrLessFrom(_, _, _)
StrLessFrom(a, b, i) ==
    IF i > Len(b) THEN FALSE
    ELSE IF i > Len(a) THEN TRUE
    ELSE IF a[i] # b[i] THEN Ord(a[i]) < Ord(b[i])
    ELSE StrLessFrom(a, b, i + 1)

StrLess(a, b) == StrLessFrom(a, b, 1)

\* Index of the last / first occurrence of character c in s, 0 when there is none.
RECURSIVE LastIndexOf(_, _, _)
LastIndexOf(s, c, i) ==
    IF i = 0 THEN 0 ELSE IF s[i] = c THEN i ELSE LastIndexOf(s, c, i - 1)

RECURSIVE FirstIndexOf(_, _, _)
FirstIndexOf(s, c, i) ==
    IF i > Len(s) THEN 0 ELSE IF s[i] = c THEN i ELSE FirstIndexOf(s, c, i + 1)

\* s.replace(c, '')
RECURSIVE Remove(_, _)
Remove(s, c) ==
    IF s = <<>> THEN <<>>
    ELSE IF Head(s) = c THEN Remove(Tail(s), c)
    ELSE <<Head(s)>> \o Remove(Tail(s), c)

-----------------------------------------------------------------------------
(* datetime.strptime *)

\* A datetime is <<year, month, day, hour, minute, second, microsecond>>.
RECURSIVE TupleLessFrom(_, _, _)
TupleLessFrom(a, b, i) ==
    IF i > Len(a) THEN FALSE
    ELSE IF a[i] # b[i] THEN a[i] < b[i]
    ELSE TupleLessFrom(a, b, i + 1)

DtLess(a, b) == TupleLessFrom(a, b, 1)

Directives == {"%Y", "%m", "%d", "%H", "%M", "%S", "%f"}

\* The widths a directive's regular expression can take, in the order the
\* alternatives are tried (the widest first).
DirectiveWidths(d) ==
    CASE d = "%Y" -> <<4>>
      [] d = "%f" -> <<6, 5, 4, 3, 2, 1>>
      [] OTHER    -> <<2, 1>>

IsDigits(s, pos, w) == pos + w - 1 <= Len(s) /\ \A i \in pos..(pos + w - 1) : s[i] \in Digits

RECURSIVE NumVal(_, _, _)
NumVal(s, pos, w) ==
    IF w = 0 THEN 0 ELSE 10 * NumVal(s, pos, w - 1) + DigitVal(s[pos + w - 1])

\* Whether the w digits of value v match the directive's regular expression.
FieldOk(d, w, v) ==
    CASE d = "%Y" -> TRUE
      [] d = "%m" -> 1 <= v /\ v <= (IF w = 2 THEN 12 ELSE 9)
      [] d = "%d" -> 1 <= v /\ v <= (IF w = 2 THEN 31 ELSE 9)
      [] d = "%H" -> v <= (IF w = 2 THEN 23 ELSE 9)
      [] d = "%M" -> v <= (IF w = 2 THEN 59 ELSE 9)
      [] d = "%S" -> v <= (IF w = 2 THEN 61 ELSE 9)
      [] d = "%f" -> TRUE

RECURSIVE Pow10(_)
Pow10(n) == IF n = 0 THEN 1 ELSE 10 * Pow10(n - 1)

\* The value a directive yields; %f is right-padded to microseconds.
FieldVal(d, w, v) == IF d = "%f" THEN v * Pow10(6 - w) ELSE v

NoMatch == [ok |-> FALSE, end |-> 0, vals |-> <<>>]

\* The regular-expression match of format fmt (from its k-th token) on s from
\* pos, with backtracking over the field widths.
RECURSIVE MatchFrom(_, _, _, _)
RECURSIVE TryWidths(_, _, _, _, _)
MatchFrom(s, pos, fmt, k) ==
    IF k > Len(fmt) THEN [ok |-> TRUE, end |-> pos, vals |-> <<>>]
    ELSE IF fmt[k] \notin Directives
    THEN IF pos <= Len(s) /\ s[pos] = fmt[k] THEN MatchFrom(s, pos + 1, fmt, k + 1) ELSE NoMatch
    ELSE TryWidths(s, pos, fmt, k, 1)

TryWidths(s, pos, fmt, k, i) ==
    LET ws == DirectiveWidths(fmt[k]) IN
    IF i > Len(ws) THEN NoMatch
    ELSE LET w == ws[i] IN
         IF IsDigits(s, pos, w) /\ FieldOk(fmt[k], w, NumVal(s, pos, w))
         THEN LET rest == MatchFrom(s, pos + w, fmt, k + 1) IN
              IF rest.ok
              THEN [ok |-> TRUE, end |-> rest.end,
                    vals |-> <<FieldVal(fmt[k], w, NumVal(s, pos, w))>> \o rest.vals]
              ELSE TryWidths(s, pos, fmt, k, i + 1)
         ELSE TryWidths(s, pos, fmt, k, i + 1)

IsLeap(y) == (y % 4 = 0 /\ y % 100 # 0) \/ y % 400 = 0

DaysInMonth(y, m) ==
    IF m = 2 THEN (IF IsLeap(y) THEN 29 ELSE 28)
    ELSE IF m \in {4, 6, 9, 11} THEN 30 ELSE 31

\* datetime(...) accepts the fields.
ValidDatetime(dt) ==
    /\ dt[1] >= 1
    /\ dt[3] <= DaysInMonth(dt[1], dt[2])
    /\ dt[6] <= 59

ValueError == [ok |-> FALSE, dt |-> <<>>]

\* strptime(s, fmt) for a format with the six date/time directives and an
\* optional %f: the parsed datetime, or ValueError.
strptime(s, fmt) ==
    LET m  == MatchFrom(s, 1, fmt, 1)
        dt == IF Len(m.vals) = 6 THEN m.vals \o <<0>> ELSE m.vals
    IN  IF m.ok /\ m.end = Len(s) + 1 /\ ValidDatetime(dt)
        THEN [ok |-> TRUE, dt |-> dt]
        ELSE ValueError

-----------------------------------------------------------------------------
(* File names, and scripts/main.py's helpers *)

Prefix == <<"v", "e", "s", "s", "e", "l", "_", "d", "a", "t", "a", "_">>
Suffix == <<".", "j", "s", "o", "n">>

\* The files that can be in the directory, by name.
File1 == "vessel_data_20250408T140312Z.json"
\* The same instant as File1, the day not zero-padded.
File1u == "vessel_data_2025048T140312Z.json"
File2 == "vessel_data_20250409T080000Z.json"
File3 == "vessel_data_20250410T080000Z.json"
\* Matches the glob, not the timestamp grammar.
FileLatest == "vessel_data_latest.json"

\* The characters of each file name.
Chars ==
    File1 :> (Prefix \o <<"2", "0", "2", "5", "0", "4", "0", "8", "T", "1", "4", "0", "3", "1", "2", "Z">> \o Suffix) @@
    File1u :> (Prefix \o <<"2", "0", "2", "5", "0", "4", "8", "T", "1", "4", "0", "3", "1", "2", "Z">> \o Suffix) @@
    File2 :> (Prefix \o <<"2", "0", "2", "5", "0", "4", "0", "9", "T", "0", "8", "0", "0", "0", "0", "Z">> \o Suffix) @@
    File3 :> (Prefix \o <<"2", "0", "2", "5", "0", "4", "1", "0", "T", "0", "8", "0", "0", "0", "0", "Z">> \o Suffix) @@
    FileLatest :> (Prefix \o <<"l", "a", "t", "e", "s", "t">> \o Suffix)

FileNames == {File1, File1u, File2, File3, FileLatest}

MainFormat == <<"%Y", "%m", "%d", "T", "%H", "%M", "%S", "Z">>

\* The path's directory part is the same for every file; a path is modelled by
\* its basename, Chars[file_path] being its characters.
get_datetime_from_filename(file_path) ==
    LET filename == Chars[file_path]
        time_str == SubSeq(filename, Len(Prefix) + 1, Len(filename) - Len(Suffix))
    IN  strptime(time_str, MainFormat)


\* What the file holds, by what open() and json.load() make of it:
\*   "unreadable"    open() raises
\*   "invalid_json"  json.load() raises
\*   "data_vessels"  {"data": {"vessels": [...]}}
\*   "vessels"       {"vessels": [...]}
\*   "other"         any other JSON object, modelled as {}
\* The vessels field is the list in the two shapes that have one, else <<>>.
BodyKinds == {"unreadable", "invalid_json", "data_vessels", "vessels", "other"}

\* main.py's loader: the vessel list, or the uncaught exception.
load_vessel_data(body) ==
    IF body.kind = "data_vessels"
    THEN [ok |-> TRUE, vessels |-> body.vessels]
    ELSE [ok |-> FALSE, vessels |-> <<>>]

EarthRadiusTenths == 39588

\* Haversine distance in thousandths of a mile between two points given in
\* thousandths of a degree.  The vessels of the model lie on the equator and
\* less than half a degree apart, where a = sin^2(dlon/2) and the formula
\* reduces to r * radians(|dlon|); pi is taken as 355/113.
haversine_distance(lat1, lon1, lat2, lon2) ==
    LET dlon == IF lon2 >= lon1 THEN lon2 - lon1 ELSE lon1 - lon2
    IN  (EarthRadiusTenths * 71 * dlon) \div (360 * 113)

MovedThresholdMiles == 5

\* prev_positions: name -> (lat, lon); a later record of a name replaces an earlier one.
PrevPositions(prev) ==
    [n \in {prev[i].name : i \in DOMAIN prev} |->
        LET last == CHOOSE i \in DOMAIN prev :
                        /\ prev[i].name = n
                        /\ \A j \in DOMAIN prev : prev[j].name = n => j <= i
        IN  <<prev[last].lat, prev[last].lon>>]

\* Mutant: the branch for a vessel that is new in the current snapshot is missing.
VesselChangedNoNew(prev_positions, vessel) ==
    /\ vessel.lat # None /\ vessel.lon # None
    /\ vessel.name \in DOMAIN prev_positions
    /\ prev_positions[vessel.name][1] # None /\ prev_positions[vessel.name][2] # None
    /\ haversine_distance(prev_positions[vessel.name][1][1], prev_positions[vessel.name][2][1],
                          vessel.lat[1], vessel.lon[1]) > MovedThresholdMiles * 1000

\* Whether the loop body appends the vessel's name.
VesselChanged(prev_positions, vessel) ==
    LET current_lat == vessel.lat
        current_lon == vessel.lon
    IN  IF current_lat # None /\ current_lon # None
        THEN IF vessel.name \in DOMAIN prev_positions
             THEN LET prev_lat == prev_positions[vessel.name][1]
                      prev_lon == prev_positions[vessel.name][2]
                  IN  IF prev_lat # None /\ prev_lon # None
                      THEN haversine_distance(prev_lat[1], prev_lon[1],
                                              current_lat[1], current_lon[1])
                               > MovedThresholdMiles * 1000
                      ELSE FALSE
             ELSE TRUE
        ELSE FALSE

RECURSIVE ChangedLoop(_, _)
ChangedLoop(prev_positions, vs) ==
    IF vs = <<>> THEN <<>>
    ELSE (IF VesselChanged(prev_positions, Head(vs)) THEN <<Head(vs).name>> ELSE <<>>)
            \o ChangedLoop(prev_positions, Tail(vs))

\* The comparison of main(): the changed names, in the order of the current list.
ChangedVesselNames(prev, vs) == ChangedLoop(PrevPositions(prev), vs)

\* list.sort(key=lambda x: x[0]): stable, by the datetime alone.
RECURSIVE InsertByKey(_, _)
InsertByKey(sorted, item) ==
    IF sorted = <<>> THEN <<item>>
    ELSE IF DtLess(item[1], Head(sorted)[1]) THEN <<item>> \o sorted
    ELSE <<Head(sorted)>> \o InsertByKey(Tail(sorted), item)

RECURSIVE SortByKey(_)
SortByKey(list) ==
    IF list = <<>> THEN <<>>
    ELSE InsertByKey(SortByKey(SubSeq(list, 1, Len(list) - 1)), list[Len(list)])



-----------------------------------------------------------------------------
(* The fleet directory *)

MaxFiles == 3

Vessel(name, lat, lon) == [name |-> name, lat |-> lat, lon |-> lon]

\* Alpha on the equator: 145 thousandths of a degree are 10.0 miles, 29 are 2.0.
AlphaAt(lon) == Vessel("Alpha", Some(0), Some(lon))
Beta0 == Vessel("Beta", Some(0), Some(0))

Snapshot(vs) == [kind |-> "data_vessels", vessels |-> vs]

\* The file bodies of the timeline.
SnapshotBodies ==
    { Snapshot(<<AlphaAt(0)>>), Snapshot(<<AlphaAt(145)>>), Snapshot(<<AlphaAt(174)>>),
      Snapshot(<<>>),
      [kind |-> "vessels", vessels |-> <<AlphaAt(0)>>],
      [kind |-> "invalid_json", vessels |-> <<>>] }

\* The directories of at most MaxFiles files with the given bodies.
FleetsOver(bodies) ==
    UNION { [names -> bodies] :
                names \in {ns \in SUBSET FileNames : Cardinality(ns) <= MaxFiles} }

Fleets == FleetsOver(SnapshotBodies)

\* The file bodies of the playback timeline.
PlaybackBodies ==
    { Snapshot(<<AlphaAt(0), Beta0>>),
      [kind |-> "vessels", vessels |-> <<AlphaAt(0)>>],
      [kind |-> "invalid_json", vessels |-> <<>>] }

PlaybackFleets == FleetsOver(PlaybackBodies)

\* The orders in which glob.glob() can return the files named.
GlobOrders(names) ==
    {s \in [1..Cardinality(names) -> names] : Range(s) = names}

-----------------------------------------------------------------------------
(* scripts/main.py: main() *)

\* get_datetime_from_filename on each file name of the model, computed once.
FileDatetime == [path \in FileNames |-> get_datetime_from_filename(path)]

\* The (datetime, path) pairs in glob order.
TimelinePairs(file_paths) ==
    [i \in DOMAIN file_paths |-> <<FileDatetime[file_paths[i]].dt, file_paths[i]>>]

\* Steps 1 and 2 of main() on what glob.glob() returned: the early return, the
\* exception of get_datetime_from_filename, or the sorted list.
ListTimeline(file_paths) ==
    IF file_paths = <<>>
    THEN [status |-> "no_files", timeline |-> <<>>]
    ELSE IF \E i \in DOMAIN file_paths : ~FileDatetime[file_paths[i]].ok
    THEN [status |-> "ValueError", timeline |-> <<>>]
    ELSE [status |-> "listed", timeline |-> SortByKey(TimelinePairs(file_paths))]

\* What steps 1 and 2 can give for each set of file names, over every order
\* glob.glob() can return them in; computed once.
Listings == [names \in SUBSET FileNames |-> {ListTimeline(fp) : fp \in GlobOrders(names)}]

\* Mutant: a run that ends early drops the stored state.
NotRenderedReset(how, timeline, index) ==
    /\ outcome' = how
    /\ timeline_files' = timeline
    /\ selected_index' = index
    /\ vessels' = <<>>
    /\ changed_vessel_names' = <<>>
    /\ compared_with' = None
    /\ session_state' = EmptyDict

\* A run that returns or raises before the comparison leaves these behind.
NotRendered(how, timeline, index) ==
    /\ outcome' = how
    /\ timeline_files' = timeline
    /\ selected_index' = index
    /\ vessels' = <<>>
    /\ changed_vessel_names' = <<>>
    /\ compared_with' = None
    /\ UNCHANGED session_state

\* 'prev_vessel_data' not in st.session_state
FirstRun(ss) == "prev_vessel_data" \notin DOMAIN ss

\* Mutant: the comparison runs on every render after the first.
IndexChangedAlways(ss, index) == TRUE

\* st.session_state.prev_index != selected_index
IndexChanged(ss, index) == ss.prev_index # index

\* Mutant: the index is recorded, the baseline of an earlier render is kept.
StoreViewedStaleData(vs, index) ==
    [prev_vessel_data |-> IF FirstRun(session_state) THEN vs
                          ELSE session_state.prev_vessel_data,
     prev_index |-> index]

\* Mutant: once something is stored it is never overwritten.
StoreViewedOnce(vs, index) ==
    IF FirstRun(session_state) THEN [prev_vessel_data |-> vs, prev_index |-> index]
    ELSE session_state

\* Mutant: the slider's default is recorded in place of the selected index.
StoreViewedDefaultIndex(vs, index) == [prev_vessel_data |-> vs, prev_index |-> 0]

\* The two assignments that record the snapshot just rendered.
StoreViewed(vs, index) == [prev_vessel_data |-> vs, prev_index |-> index]

\* The end of the run after the comparison: a DataFrame built from an empty
\* list has no 'name' column, and df['name'] raises before the map is drawn.
Display(vs) == IF vs = <<>> THEN "KeyError" ELSE "rendered"

\* One run of main(): listing is what steps 1 and 2 make of the directory,
\* slider the position of the slider (used once the slider exists).
main(listing, slider) ==
    IF listing.status # "listed"
    THEN slider = 0 /\ NotRendered(listing.status, <<>>, None)
    ELSE
        LET timeline == listing.timeline
            selected_file == timeline[slider + 1][2]
            loaded == load_vessel_data(fleet[selected_file])
        IN  /\ slider \in 0..(Len(timeline) - 1)
            /\ IF ~loaded.ok
               THEN NotRendered("load_error", timeline, Some(slider))
               ELSE /\ outcome' = Display(loaded.vessels)
                    /\ timeline_files' = timeline
                    /\ selected_index' = Some(slider)
                    /\ vessels' = loaded.vessels
                    /\ IF FirstRun(session_state)
                       THEN /\ session_state' = StoreViewed(loaded.vessels, slider)
                            /\ changed_vessel_names' = <<>>
                            /\ compared_with' = None
                       ELSE IF IndexChanged(session_state, slider)
                       THEN /\ changed_vessel_names' =
                                 ChangedVesselNames(session_state.prev_vessel_data,
                                                    loaded.vessels)
                            /\ compared_with' = Some(session_state.prev_vessel_data)
                            /\ session_state' = StoreViewed(loaded.vessels, slider)
                       ELSE /\ changed_vessel_names' = <<>>
                            /\ compared_with' = None
                            /\ UNCHANGED session_state

Render ==
    /\ \E listing \in Listings[DOMAIN fleet] : \E slider \in 0..MaxFiles :
           main(listing, slider)
    /\ UNCHANGED <<fleet, ds_vars, det_vars>>

\* A file of the directory is deleted between two runs.
RemoveFile ==
    /\ \E path \in DOMAIN fleet :
           fleet' = [q \in DOMAIN fleet \ {path} |-> fleet[q]]
    /\ UNCHANGED <<main_vars, ds_vars, det_vars>>

-----------------------------------------------------------------------------
(* scripts/main_deepseek.py *)

DeepseekFormat == <<"%Y", "%m", "%d", "%H", "%M", "%S", "%f", "Z">>

\* What datetime.now() returns in the except branch.
Now == <<2026, 1, 1, 0, 0, 0, 0>>

\* The parsed datetime, or now() with parsed = FALSE when strptime raised.
get_timestamp_from_filename(filename) ==
    LET basename  == Chars[filename]
        afterLast == SubSeq(basename, LastIndexOf(basename, "_", Len(basename)) + 1,
                            Len(basename))
        dot       == FirstIndexOf(afterLast, ".", 1)
        first     == IF dot = 0 THEN afterLast ELSE SubSeq(afterLast, 1, dot - 1)
        ts_str    == Remove(first, "T")
        parsed    == strptime(ts_str, DeepseekFormat)
    IN  IF parsed.ok THEN [parsed |-> TRUE, dt |-> parsed.dt]
        ELSE [parsed |-> FALSE, dt |-> Now]

FileTimestamp == [path \in FileNames |-> get_timestamp_from_filename(path)]

\* The loader of main_deepseek.py; the list is what vessel_data.get('vessels', []) gives.
ds_load_vessel_data(body) ==
    IF body.kind \in {"data_vessels", "vessels"} THEN body.vessels ELSE <<>>

\* Python's path1 < path2 on each pair of file names of the model, computed once.
PathLess == [a \in FileNames |-> [b \in FileNames |-> StrLess(Chars[a], Chars[b])]]

\* sorted(glob.glob(...)): the names ascending by path.
Sorted(names) ==
    CHOOSE s \in GlobOrders(names) :
        \A i, j \in DOMAIN s : i < j => PathLess[s[i]][s[j]]

\* DATA_FILES for each set of file names; computed once.
DATA_FILES == [names \in SUBSET FileNames |-> Sorted(names)]

\* The values of the playback-speed slider (tenths) and of the zoom slider
\* that a run is given: 1.0 or 2.0, and the default zoom.
SpeedChoices == {10, 20}
ZoomChoices == {2}

\* session_state after lines 78-85.
WithDefaults(ss) ==
    [playing          |-> IF "playing" \in DOMAIN ss THEN ss.playing ELSE FALSE,
     speed            |-> IF "speed" \in DOMAIN ss THEN ss.speed ELSE 10,
     current_file_idx |-> IF "current_file_idx" \in DOMAIN ss THEN ss.current_file_idx ELSE 0,
     zoom_level       |-> IF "zoom_level" \in DOMAIN ss THEN ss.zoom_level ELSE 2]

\* After the select_slider block, lines 106-115.
AfterSlider(ss, selected_idx) ==
    IF selected_idx # ss.current_file_idx
    THEN [ss EXCEPT !.current_file_idx = selected_idx, !.playing = FALSE]
    ELSE ss

\* After the two buttons, lines 117-124.
AfterButtons(ss, button) ==
    IF button = "play" THEN [ss EXCEPT !.playing = ~ss.playing]
    ELSE IF button = "stop" THEN [ss EXCEPT !.playing = FALSE, !.current_file_idx = 0]
    ELSE ss

\* Mutant: the end of the list is tested against len(DATA_FILES), not len - 1.
AutoplayBranchOffByOne(ss, n) ==
    IF ss.playing /\ n > 0
    THEN IF ss.current_file_idx < n THEN "advance" ELSE "finish"
    ELSE "idle"

\* The branch of the auto-play block, lines 160-167.
AutoplayBranch(ss, n) ==
    IF ss.playing /\ n > 0
    THEN IF ss.current_file_idx < n - 1 THEN "advance" ELSE "finish"
    ELSE "idle"

AfterAutoplay(ss, n) ==
    IF AutoplayBranch(ss, n) = "advance"
    THEN [ss EXCEPT !.current_file_idx = ss.current_file_idx + 1]
    ELSE IF AutoplayBranch(ss, n) = "finish"
    THEN [ss EXCEPT !.playing = FALSE]
    ELSE ss

DsNotRendered(how, ss, files) ==
    /\ ds_outcome' = how
    /\ ds_session' = ss
    /\ ds_files' = files
    /\ ds_shown' = None
    /\ ds_vessel_data' = <<>>
    /\ ds_timestamp' = None
    /\ ds_autoplay' = "idle"

\* One run of the script: files is DATA_FILES as the module level computed it,
\* selected_idx what the select_slider returns, button the button clicked in
\* this run ("none", "play" or "stop").
ds_main(files, selected_idx, button, speed, zoom) ==
    LET n     == Len(files)
        ss0   == WithDefaults(ds_session)
        \* no widget is reached: the inputs are not read
        Inputs0 == selected_idx = 0 /\ button = "none" /\ speed = 10 /\ zoom = 2
    IN  IF n > 0 /\ ss0.current_file_idx >= n
        THEN Inputs0 /\ DsNotRendered("IndexError", ss0, files)
        ELSE IF n = 0
        THEN Inputs0 /\ DsNotRendered("no_files", ss0, files)
        ELSE
            LET ss1 == AfterButtons(AfterSlider(ss0, selected_idx), button)
                ss2 == [ss1 EXCEPT !.speed = speed, !.zoom_level = zoom]
                path == files[ss2.current_file_idx + 1]
            IN  /\ selected_idx \in 0..(n - 1)
                /\ ds_outcome' = "rendered"
                /\ ds_files' = files
                /\ ds_shown' = Some(ss2.current_file_idx)
                /\ ds_vessel_data' = ds_load_vessel_data(fleet[path])
                /\ ds_timestamp' = Some(FileTimestamp[path])
                /\ ds_autoplay' = AutoplayBranch(ss2, n)
                /\ ds_session' = AfterAutoplay(ss2, n)

Run ==
    /\ LET files == DATA_FILES[DOMAIN fleet] IN
       \E selected_idx \in 0..MaxFiles : \E button \in {"none", "play", "stop"} :
       \E speed \in SpeedChoices : \E zoom \in ZoomChoices :
           ds_main(files, selected_idx, button, speed, zoom)
    /\ UNCHANGED <<fleet, main_vars, det_vars>>

-----------------------------------------------------------------------------
(* The change detector on its own *)

\* The vessel lists given to the detector: each of Alpha and Beta is absent or
\* present with or without each coordinate; 72 thousandths of a degree are
\* 4.97 miles, 73 are 5.04.
DetectorCoords == {None, Some(0), Some(72), Some(73)}

DetectorRecords(name) ==
    {<<>>} \cup {<<Vessel(name, lat, lon)>> : lat \in {None, Some(0)}, lon \in DetectorCoords}

DetectorVesselLists ==
    {a \o b : a \in DetectorRecords("Alpha"), b \in DetectorRecords("Beta")}

Detect ==
    /\ detected = None
    /\ detected' = Some(ChangedVesselNames(previous_data, current_data))
    /\ UNCHANGED <<fleet, main_vars, ds_vars, previous_data, current_data>>

-----------------------------------------------------------------------------
(* Specifications *)

InitMain ==
    /\ session_state = EmptyDict
    /\ outcome = "start"
    /\ timeline_files = <<>>
    /\ selected_index = None
    /\ vessels = <<>>
    /\ changed_vessel_names = <<>>
    /\ compared_with = None

InitDeepseek ==
    /\ ds_session = EmptyDict
    /\ ds_outcome = "start"
    /\ ds_files = <<>>
    /\ ds_shown = None
    /\ ds_vessel_data = <<>>
    /\ ds_timestamp = None
    /\ ds_autoplay = "idle"

InitDetector ==
    /\ previous_data = <<>>
    /\ current_data = <<>>
    /\ detected = None

Init ==
    /\ fleet \in Fleets
    /\ InitMain
    /\ InitDeepseek
    /\ InitDetector

Next == Render

\* main.py over a directory that does not change.
Spec == Init /\ [][Next]_vars

NextDisk == Render \/ RemoveFile

\* main.py over a directory that loses files.
SpecDisk == Init /\ [][NextDisk]_vars

InitPlayback ==
    /\ fleet \in PlaybackFleets
    /\ InitMain
    /\ InitDeepseek
    /\ InitDetector

NextDeepseek == Run

\* main_deepseek.py over a directory that does not change.
SpecDeepseek == InitPlayback /\ [][NextDeepseek]_vars

InitDetect ==
    /\ fleet = EmptyDict
    /\ InitMain
    /\ InitDeepseek
    /\ previous_data \in DetectorVesselLists
    /\ current_data \in DetectorVesselLists
    /\ detected = None

NextDetect == Detect

\* The change detector applied to every pair of vessel lists.
SpecDetect == InitDetect /\ [][NextDetect]_vars


-----------------------------------------------------------------------------
(* Properties of main.py's timeline state (Spec) *)

HasViewed == "prev_index" \in DOMAIN session_state

\* The outcomes of the runs that got through the session-state block.
PastComparison == {"rendered", "KeyError"}

\* The timestamps of the directory are pairwise distinct, so every run over it
\* builds the same ordered list.
DistinctTimes ==
    \A p, q \in DOMAIN fleet : p # q => FileDatetime[p].dt # FileDatetime[q].dt

\* The vessel list of the file at (0-based) index i of an ordered list.
SnapshotAt(list, i) == fleet[list[i + 1][2]].vessels

\* A run that rendered after the slider moved away from the stored index.
MovedRender ==
    /\ outcome' \in PastComparison
    /\ HasViewed
    /\ selected_index' # Some(session_state.prev_index)

\* C1: over a fixed snapshot list, a render whose selected index differs from
\* the stored last-viewed index computes the changed list against the vessels
\* of the snapshot at the stored index, however far the two indexes are apart.
C1_SkippedFrame ==
    [][ (MovedRender /\ DistinctTimes) =>
          LET base == SnapshotAt(timeline_files', session_state.prev_index)
              curr == SnapshotAt(timeline_files', selected_index'[1])
          IN  /\ compared_with' = Some(base)
              /\ changed_vessel_names' = ChangedVesselNames(base, curr) ]_vars

\* Index 2 rendered after index 0: Alpha is flagged against snapshot 0 (12
\* miles away), where the adjacent snapshot 1 (2 miles away) would not flag it.
C1_Witness ==
    /\ outcome = "rendered"
    /\ DistinctTimes
    /\ Len(timeline_files) = 3
    /\ selected_index = Some(2)
    /\ compared_with = Some(SnapshotAt(timeline_files, 0))
    /\ changed_vessel_names = <<"Alpha">>
    /\ ChangedVesselNames(SnapshotAt(timeline_files, 1), vessels) = <<>>

\* C2: a render at the stored index yields no changed vessel and leaves the
\* stored index and baseline as they are; the stored state changes only in a
\* render that is the first one or whose selected index differs from the stored one.
C2_SameIndex ==
    [][ /\ (outcome' \in PastComparison /\ HasViewed
              /\ selected_index' = Some(session_state.prev_index))
           => (changed_vessel_names' = <<>> /\ session_state' = session_state)
        /\ session_state' # session_state
           => (outcome' \in PastComparison
                 /\ (~HasViewed \/ selected_index' # Some(session_state.prev_index))) ]_vars

\* A re-render at the stored index that loaded other vessels than the stored
\* baseline (two files of one timestamp swapped places): nothing is flagged
\* and the baseline is still the one stored before.
C2_Witness ==
    /\ outcome = "rendered"
    /\ HasViewed
    /\ selected_index = Some(session_state.prev_index)
    /\ vessels # session_state.prev_vessel_data
    /\ changed_vessel_names = <<>>
    /\ compared_with = None

ScenarioFleet ==
    /\ DOMAIN fleet = {File1, File2, File3}
    /\ fleet[File1] = Snapshot(<<AlphaAt(0)>>)
    /\ fleet[File2] = Snapshot(<<AlphaAt(145)>>)
    /\ fleet[File3] = Snapshot(<<AlphaAt(174)>>)

\* C3: a render whose selected index differs from the stored one overwrites
\* the stored baseline and index with the selection's vessel list and index.
\* With Alpha at T1, 10 miles further at T2 and 2 miles further at T3: the
\* render of T2 after T1 flags Alpha, the render of T3 after T2 does not.
C3_Overwrite ==
    [][ /\ MovedRender =>
              session_state' = [prev_vessel_data |->
                                    SnapshotAt(timeline_files', selected_index'[1]),
                                prev_index |-> selected_index'[1]]
        /\ (MovedRender /\ ScenarioFleet /\ session_state.prev_index = 0
              /\ selected_index' = Some(1))
           => changed_vessel_names' = <<"Alpha">>
        /\ (MovedRender /\ ScenarioFleet /\ session_state.prev_index = 1
              /\ selected_index' = Some(2))
           => changed_vessel_names' = <<>> ]_vars

\* T3 rendered after T2 in the scenario: compared with T2, Alpha not flagged.
C3_Witness ==
    /\ ScenarioFleet
    /\ outcome = "rendered"
    /\ selected_index = Some(2)
    /\ compared_with = Some(<<AlphaAt(145)>>)
    /\ changed_vessel_names = <<>>
    /\ session_state = [prev_vessel_data |-> <<AlphaAt(174)>>, prev_index |-> 2]

\* C4: a render with no stored state flags nothing and stores the selected
\* snapshot's vessel list and the selected index, whatever the index.
C4_FirstRender ==
    [][ (FirstRun(session_state) /\ outcome' \in PastComparison) =>
          /\ changed_vessel_names' = <<>>
          /\ compared_with' = None
          /\ session_state' = [prev_vessel_data |->
                                   SnapshotAt(timeline_files', selected_index'[1]),
                               prev_index |-> selected_index'[1]] ]_vars

\* A render of the last of three snapshots that compared nothing and stored it.
C4_Witness ==
    /\ outcome = "rendered"
    /\ vessels # <<>>
    /\ Len(timeline_files) = 3
    /\ selected_index = Some(2)
    /\ compared_with = None
    /\ changed_vessel_names = <<>>
    /\ session_state = [prev_vessel_data |-> SnapshotAt(timeline_files, 2),
                        prev_index |-> 2]


-----------------------------------------------------------------------------
(* The change detector (SpecDetect) *)

HasCoords(v) == v.lat # None /\ v.lon # None

\* The classification as the design states it: new, or moved beyond the threshold.
ChangedSet(baseline, current) ==
    {v.name : v \in {c \in Range(current) :
        /\ HasCoords(c)
        /\ \/ \A b \in Range(baseline) : b.name # c.name
           \/ \E b \in Range(baseline) :
                  /\ b.name = c.name
                  /\ HasCoords(b)
                  /\ haversine_distance(b.lat[1], b.lon[1], c.lat[1], c.lon[1])
                         > MovedThresholdMiles * 1000}}

\* C5: for every baseline and current list, a name is in the changed list iff
\* its current record has both coordinates and it is either absent from the
\* baseline, or in the baseline with both coordinates and more than 5 miles away.
C5_Classification ==
    detected # None => Range(detected[1]) = ChangedSet(previous_data, current_data)

\* Alpha moved 5.04 miles and is flagged; Beta, whose baseline record lacks a
\* coordinate, is not.
C5_Witness ==
    /\ previous_data = <<Vessel("Alpha", Some(0), Some(0)), Vessel("Beta", Some(0), None)>>
    /\ current_data = <<Vessel("Alpha", Some(0), Some(73)), Vessel("Beta", Some(0), Some(0))>>
    /\ detected = Some(<<"Alpha">>)

-----------------------------------------------------------------------------
(* Listing and loading in main.py (Spec) *)

WellFormed(path) == FileDatetime[path].ok

\* C6: the ordered list is ascending by parsed timestamp, equal timestamps by path.
C6_SortedByTimeThenPath ==
    outcome = "rendered" =>
        \A i, j \in DOMAIN timeline_files :
            i < j => \/ DtLess(timeline_files[i][1], timeline_files[j][1])
                     \/ /\ timeline_files[i][1] = timeline_files[j][1]
                        /\ PathLess[timeline_files[i][2]][timeline_files[j][2]]

\* C7: a file that matches the glob but not the timestamp grammar is left out
\* and the run goes on with the well-formed files.
C7_MalformedExcluded ==
    (outcome # "start" /\ \E path \in DOMAIN fleet : WellFormed(path))
        => /\ outcome # "ValueError"
           /\ {timeline_files[i][2] : i \in DOMAIN timeline_files}
                  = {path \in DOMAIN fleet : WellFormed(path)}

\* C8: loading never fails the render: the two accepted shapes give their
\* vessel list, anything else the empty list.
C8_LoaderNeverFails ==
    selected_index # None =>
        LET body == fleet[timeline_files[selected_index[1] + 1][2]]
        IN  /\ outcome # "load_error"
            /\ vessels = IF body.kind \in {"data_vessels", "vessels"}
                         THEN body.vessels ELSE <<>>

-----------------------------------------------------------------------------
(* The empty directory in main.py (SpecDisk) *)

\* C9: a run that finds no file stops with the warning: no snapshot is
\* selected, loaded or compared, no exception is raised and the stored index
\* and baseline stay as they were.
C9_EmptyTimeline ==
    [][ DOMAIN fleet = {} =>
          /\ outcome' = "no_files"
          /\ session_state' = session_state
          /\ timeline_files' = <<>>
          /\ selected_index' = None
          /\ vessels' = <<>>
          /\ changed_vessel_names' = <<>>
          /\ compared_with' = None ]_vars

\* The directory was emptied after a snapshot had been viewed.
C9_Witness ==
    /\ DOMAIN fleet = {}
    /\ outcome = "no_files"
    /\ HasViewed
    /\ session_state.prev_vessel_data # <<>>

-----------------------------------------------------------------------------
(* Playback in main_deepseek.py (SpecDeepseek) *)

\* C10: with N >= 1 files, current_file_idx stays in 0..N-1; the auto-play
\* block adds exactly one to the index it was entered with, and only below
\* N-1; entered at N-1 it clears playing and keeps the index.
C10_IndexInRange ==
    /\ ds_outcome # "IndexError"
    /\ ds_outcome = "rendered" =>
          LET n   == Len(ds_files)
              idx == ds_session.current_file_idx
          IN  /\ idx \in 0..(n - 1)
              /\ ds_shown[1] \in 0..(n - 1)
              /\ ds_autoplay = "advance" => (ds_shown[1] < n - 1 /\ idx = ds_shown[1] + 1)
              /\ ds_autoplay = "finish"
                    => (ds_shown[1] = n - 1 /\ idx = ds_shown[1] /\ ~ds_session.playing)
              /\ ds_autoplay = "idle" => (idx = ds_shown[1] /\ ~ds_session.playing)

\* Playback reached the last of three files and stopped there.
C10_Witness ==
    /\ ds_outcome = "rendered"
    /\ Len(ds_files) = 3
    /\ ds_autoplay = "finish"
    /\ ds_session.current_file_idx = 2
    /\ ~ds_session.playing

====
